---- MODULE Spec2Model ----
(***************************************************************************)
(* Model of the Impulse editor's application state (src/src/main.rs): the  *)
(* track registry (State.channels / State.spectrograms), the message       *)
(* handler State::update, the refresh State::view, and the std::sync::mpsc *)
(* transport that a producer writes to through a cloned Sender.            *)
(*                                                                         *)
(* Ghost state (not fields of the program): lastStep, enqueued, discarded, *)
(* nAdd, nImport, loadCalls, and the `loads` field of an engine, which     *)
(* counts the load calls made on that engine value.                        *)
(***************************************************************************)
EXTENDS Integers, Sequences, FiniteSets, TLC

\* ---------------------------------------------------------------- bounds
\* MaxTracks: registry size; MaxPending: samples in flight over all channels.
MaxTracks == 2
MaxPending == 2
\* mpsc channels ever created (one more than can be registered, so that a
\* cancelled import can happen beside a full registry).
MaxCreated == MaxTracks + 1
SampleValues == {0, 1}

\* ---------------------------------------------------------------- state
VARIABLES
    audio_playing,   \* State.audio_playing
    theme,           \* State.theme
    spectrograms,    \* State.spectrograms : Seq of engines
    channels,        \* State.channels     : Seq of Channel
    col,             \* the Column of engines view hands to the renderer
    loadCalls,       \* ghost: per index, the load call made by the last view
    panicked,        \* the process aborted on an out-of-bounds index
    nextId,          \* identity of the next mpsc::channel() to be created
    enqueued,        \* ghost: per mpsc channel, every sample ever sent
    discarded,       \* ghost: mpsc channels created and dropped unregistered
    nAdd,            \* ghost: AddNewChannelButtonPressed messages handled
    nImport,         \* ghost: ImportAudioButtonPressed messages with a file
    lastStep         \* ghost: the step that produced this state

vars == <<audio_playing, theme, spectrograms, channels, col, loadCalls,
          panicked, nextId, enqueued, discarded, nAdd, nImport, lastStep>>

Theme_ALL == {"Light", "Dark"}
Theme_default == "Light"

ChannelIds == 1..MaxCreated

\* ---------------------------------------------------------------- Channel
\* Channel::new: a fresh mpsc pair (identified by id, nothing in flight)
\* and an empty accumulated buffer.
Channel_new(id) ==
    [samples |-> <<>>, channel |-> [id |-> id, queue |-> <<>>]]

\* Channel::assign_sender: a clone of the Sender half of this channel.
assign_sender(c) == c.channel.id

\* ---------------------------------------------------------------- Spectrogram
\* Spectrogram::new(sender): bound to the sender, empty representation.
Spectrogram_new(sender) ==
    [sender |-> sender, repr |-> <<>>, loads |-> 0]

\* Spectrogram::clone: a value copy.
clone(s) == s

\* Spectrogram::load(slice, BufferSize::All): a full recompute over the slice;
\* an empty slice leaves the representation as it was.  The representation
\* is abstracted to the sample sequence it was computed over; `loads` is
\* ghost and records that load was invoked on this value.
load(s, slice) ==
    [s EXCEPT !.repr = IF slice = <<>> THEN @ ELSE slice,
              !.loads = @ + 1]

\* ---------------------------------------------------------------- Init
Init ==
    /\ audio_playing = FALSE
    /\ theme = Theme_default
    /\ spectrograms = <<>>
    /\ channels = <<>>
    /\ col = <<>>
    /\ loadCalls = <<>>
    /\ panicked = FALSE
    /\ nextId = 1
    /\ enqueued = [id \in ChannelIds |-> <<>>]
    /\ discarded = {}
    /\ nAdd = 0
    /\ nImport = 0
    /\ lastStep = "init"

\* ---------------------------------------------------------------- update
\* Faulty variant of ThemeChanged: rebuilds the whole State from its default, keeping
\* only the new theme.
ThemeChanged_reset(t) ==
    /\ ~panicked
    /\ theme' = t
    /\ audio_playing' = FALSE
    /\ spectrograms' = <<>>
    /\ channels' = <<>>
    /\ lastStep' = "theme"
    /\ UNCHANGED <<col, loadCalls, panicked, nextId, enqueued, discarded,
                   nAdd, nImport>>

ThemeChanged(t) ==
    /\ ~panicked
    /\ theme' = t
    /\ lastStep' = "theme"
    /\ UNCHANGED <<audio_playing, spectrograms, channels, col, loadCalls,
                   panicked, nextId, enqueued, discarded, nAdd, nImport>>

PlayButtonPressed ==
    /\ ~panicked
    /\ audio_playing' = TRUE
    /\ lastStep' = "play"
    /\ UNCHANGED <<theme, spectrograms, channels, col, loadCalls,
                   panicked, nextId, enqueued, discarded, nAdd, nImport>>

PauseButtonPressed ==
    /\ ~panicked
    /\ audio_playing' = FALSE
    /\ lastStep' = "pause"
    /\ UNCHANGED <<theme, spectrograms, channels, col, loadCalls,
                   panicked, nextId, enqueued, discarded, nAdd, nImport>>

\* Faulty variant of last_sender: indexes the first channel instead of the last.
last_sender_first(chs) == assign_sender(chs[1])

\* self.channels[self.channels.len() - 1].assign_sender()
last_sender(chs) == assign_sender(chs[Len(chs)])

\* Faulty variant of push_track: inserts the new pair at the front of both lists.
push_track_front(c) ==
    /\ channels' = <<c>> \o channels
    /\ spectrograms' = <<Spectrogram_new(assign_sender(c))>> \o spectrograms

\* self.channels.push(c); self.spectrograms.push(Spectrogram::new(last sender))
push_track(c) ==
    /\ channels' = Append(channels, c)
    /\ spectrograms' =
          Append(spectrograms, Spectrogram_new(last_sender(channels')))

AddNewChannelButtonPressed ==
    /\ ~panicked
    /\ Len(channels) < MaxTracks
    /\ nextId <= MaxCreated
    /\ push_track(Channel_new(nextId))
    /\ nextId' = nextId + 1
    /\ nAdd' = nAdd + 1
    /\ lastStep' = "add"
    /\ UNCHANGED <<audio_playing, theme, col, loadCalls, panicked,
                   enqueued, discarded, nImport>>

\* Faulty variant of ImportAudioButtonPressed: registers the channel without looking
\* at what the dialog returned.
ImportAudioButtonPressed_unchecked(file) ==
    /\ ~panicked
    /\ nextId <= MaxCreated
    /\ nextId' = nextId + 1
    /\ Len(channels) < MaxTracks
    /\ push_track(Channel_new(nextId))
    /\ IF file
       THEN /\ nImport' = nImport + 1
            /\ lastStep' = "import_file"
       ELSE /\ lastStep' = "import_none"
            /\ UNCHANGED nImport
    /\ UNCHANGED <<audio_playing, theme, col, loadCalls, panicked,
                   enqueued, nAdd, discarded>>

\* file = TRUE: the dialog returned Some(path); FALSE: it was cancelled.
\* (A dialog error, on which .unwrap() aborts the process, is not an input
\* drawn here.)  channel_out is created before the dialog in both cases.
ImportAudioButtonPressed(file) ==
    /\ ~panicked
    /\ nextId <= MaxCreated
    /\ nextId' = nextId + 1
    /\ IF file
       THEN /\ Len(channels) < MaxTracks
            /\ push_track(Channel_new(nextId))
            /\ nImport' = nImport + 1
            /\ lastStep' = "import_file"
            /\ UNCHANGED discarded
       ELSE /\ discarded' = discarded \cup {nextId}
            /\ lastStep' = "import_none"
            /\ UNCHANGED <<channels, spectrograms, nImport>>
    /\ UNCHANGED <<audio_playing, theme, col, loadCalls, panicked,
                   enqueued, nAdd>>

\* ---------------------------------------------------------------- view
\* Faulty variant of samples_clone: takes the samples still in the transport queue.
samples_clone_pending == [i \in 1..Len(channels) |-> channels[i].channel.queue]

\* Faulty variant of samples_clone: leaves out the channels with nothing accumulated.
samples_clone_nonempty ==
    SelectSeq([i \in 1..Len(channels) |-> channels[i].samples],
              LAMBDA b : b # <<>>)

\* self.channels.iter().map(|c| c.samples.clone()).collect()
samples_clone == [i \in 1..Len(channels) |-> channels[i].samples]

\* let mut cloned = s.clone(); cloned.load(samples_clone[i].clone(), All)
cloned(i) == load(clone(spectrograms[i]), samples_clone[i])

\* acc.push(s.clone())
pushed(i) == clone(spectrograms[i])

\* Faulty variant of view: drains each transport queue first, assigning (not
\* appending) what it received to the accumulated buffer.
view_overwrite ==
    /\ ~panicked
    /\ lastStep' = "view"
    /\ channels' = [i \in 1..Len(channels) |->
                      [channels[i] EXCEPT !.samples = channels[i].channel.queue,
                                          !.channel.queue = <<>>]]
    /\ col' = [i \in 1..Len(spectrograms) |-> pushed(i)]
    /\ loadCalls' = [i \in 1..Len(spectrograms) |->
                       [slice |-> samples_clone[i], engine |-> cloned(i)]]
    /\ UNCHANGED <<audio_playing, theme, spectrograms, panicked,
                   nextId, enqueued, discarded, nAdd, nImport>>

view ==
    /\ ~panicked
    /\ lastStep' = "view"
    /\ IF Len(spectrograms) > Len(samples_clone)
       THEN /\ panicked' = TRUE
            /\ UNCHANGED <<col, loadCalls>>
       ELSE /\ col' = [i \in 1..Len(spectrograms) |-> pushed(i)]
            /\ loadCalls' = [i \in 1..Len(spectrograms) |->
                               [slice |-> samples_clone[i],
                                engine |-> cloned(i)]]
            /\ UNCHANGED panicked
    /\ UNCHANGED <<audio_playing, theme, spectrograms, channels,
                   nextId, enqueued, discarded, nAdd, nImport>>

\* ---------------------------------------------------------------- producer
RECURSIVE SumPending(_, _)
SumPending(chs, n) ==
    IF n = 0 THEN 0 ELSE Len(chs[n].channel.queue) + SumPending(chs, n - 1)

\* The sender handles that exist outside the registry's own Channel values:
\* the ones given to Spectrogram::new.
Handles == {spectrograms[i].sender : i \in 1..Len(spectrograms)}

\* Sender::send(x) on handle h: queued while the Receiver is alive, that is
\* while the Channel holding it is in self.channels.
Enqueue(h, x) ==
    /\ ~panicked
    /\ h \in Handles
    /\ SumPending(channels, Len(channels)) < MaxPending
    /\ \E i \in 1..Len(channels) :
          /\ channels[i].channel.id = h
          /\ channels' = [channels EXCEPT
                             ![i].channel.queue = Append(@, x)]
    /\ enqueued' = [enqueued EXCEPT ![h] = Append(@, x)]
    /\ lastStep' = "enqueue"
    /\ UNCHANGED <<audio_playing, theme, spectrograms, col, loadCalls,
                   panicked, nextId, discarded, nAdd, nImport>>

\* ---------------------------------------------------------------- Next
Next ==
    \/ \E t \in Theme_ALL : ThemeChanged(t)
    \/ PlayButtonPressed
    \/ PauseButtonPressed
    \/ AddNewChannelButtonPressed
    \/ \E file \in BOOLEAN : ImportAudioButtonPressed(file)
    \/ view
    \/ \E h \in ChannelIds, x \in SampleValues : Enqueue(h, x)

Spec == Init /\ [][Next]_vars

\* ---------------------------------------------------------------- properties
IsPrefix(a, b) == Len(a) <= Len(b) /\ SubSeq(b, 1, Len(a)) = a

Tracks == 1..Len(channels)

\* C1: in every reachable state the channel list and the engine list have the
\* same length, and the engine at index i holds the sender handle of the
\* channel at index i.
C1_Aligned ==
    /\ Len(channels) = Len(spectrograms)
    /\ \A i \in 1..Len(spectrograms) :
          /\ i <= Len(channels)
          /\ spectrograms[i].sender = assign_sender(channels[i])

C1_Witness ==
    /\ Len(channels) >= 2
    /\ Len(spectrograms) >= 2
    /\ channels[1].channel.id # channels[2].channel.id
    /\ lastStep = "import_file"

\* C2 (as claimed): after a refresh, the engine stored in the registry for
\* track i and the engine handed to the renderer are the engine load was
\* invoked on, and its representation is computed over track i's buffer.
C2_RegistryEngineLoaded ==
    (lastStep = "view" /\ ~panicked) =>
        \A i \in 1..Len(spectrograms) :
            /\ spectrograms[i] = loadCalls[i].engine
            /\ col[i] = loadCalls[i].engine
            /\ spectrograms[i].repr = channels[i].samples

\* C3 (as claimed): right after a refresh, each track's accumulated buffer
\* equals the sequence of samples enqueued through its sender handle.
C3_DrainedEqualsEnqueued ==
    lastStep = "view" =>
        \A i \in Tracks :
            channels[i].samples = enqueued[channels[i].channel.id]

\* C5: every step leaves each track in place and its accumulated buffer
\* before the step is a prefix of its accumulated buffer after the step.
C5_AppendOnly ==
    [][\A i \in Tracks :
          /\ i <= Len(channels')
          /\ channels'[i].channel.id = channels[i].channel.id
          /\ IsPrefix(channels[i].samples, channels'[i].samples)]_vars

C5_Witness ==
    /\ lastStep = "view"
    /\ \E i \in Tracks : Len(enqueued[channels[i].channel.id]) >= 2

\* C6: the slice the last refresh handed to load for index i is the whole
\* accumulated buffer of the channel at index i, and a refresh made while the
\* buffer is what the previous refresh saw hands over the same slice.
C6_SliceIsBuffer ==
    /\ [](lastStep = "view" /\ ~panicked =>
            /\ Len(loadCalls) = Len(spectrograms)
            /\ \A i \in 1..Len(spectrograms) :
                  /\ i <= Len(channels)
                  /\ loadCalls[i].slice = channels[i].samples)
    /\ [][lastStep' = "view" /\ ~panicked' =>
            \A i \in 1..Len(loadCalls) :
                channels[i].samples = loadCalls[i].slice
                    => loadCalls'[i].slice = loadCalls[i].slice]_vars

C6_Witness ==
    /\ lastStep = "view"
    /\ Len(loadCalls) >= 2
    /\ \E i \in Tracks : channels[i].channel.queue # <<>>

\* C7: a step that adds a track appends one channel with an empty buffer and
\* one engine at the end of both lists, every earlier element unchanged.
C7_AppendAtEnd ==
    [][lastStep' \in {"add", "import_file"} =>
          /\ Len(channels') = Len(channels) + 1
          /\ SubSeq(channels', 1, Len(channels)) = channels
          /\ channels'[Len(channels')].samples = <<>>
          /\ Len(spectrograms') = Len(spectrograms) + 1
          /\ SubSeq(spectrograms', 1, Len(spectrograms)) = spectrograms
          /\ spectrograms'[Len(spectrograms')].repr = <<>>]_vars

C7_Witness ==
    /\ lastStep = "add"
    /\ Len(channels) >= 2
    /\ channels[1].channel.queue # <<>>

\* C8: a refresh does not abort, and for a track with nothing accumulated it
\* leaves the representation of the registry's engine, and of the engine
\* handed to the renderer, as the registry's engine had it before.
C8_EmptyRefreshKeepsRepr ==
    [][lastStep' = "view" =>
          /\ ~panicked'
          /\ \A i \in 1..Len(spectrograms) :
                (i <= Len(channels) /\ channels[i].samples = <<>>) =>
                    /\ spectrograms'[i].repr = spectrograms[i].repr
                    /\ col'[i].repr = spectrograms[i].repr]_vars

C8_Witness ==
    /\ lastStep = "view"
    /\ ~panicked
    /\ Len(col) >= 1
    /\ loadCalls[1].slice = <<>>

\* C9: a cancelled import changes neither list and the channel it created is
\* never the channel of a handed-out sender handle; an import with a file
\* appends one fresh channel and one engine bound to it.
C9_ImportEffect ==
    [][/\ lastStep' = "import_none" =>
             /\ channels' = channels
             /\ spectrograms' = spectrograms
             /\ nextId \in discarded'
       /\ lastStep' = "import_file" =>
             /\ channels' = Append(channels, Channel_new(nextId))
             /\ spectrograms' = Append(spectrograms, Spectrogram_new(nextId))
       /\ Handles' \cap discarded' = {}]_vars

C9_Witness ==
    /\ lastStep = "import_none"
    /\ Len(channels) >= 1
    /\ discarded # {}

\* C10: ThemeChanged, PlayButtonPressed and PauseButtonPressed leave both
\* lists as they were; the number of tracks is the number of add messages plus
\* the number of imports with a file, and no step lowers it.
C10_TrackCount ==
    /\ Len(spectrograms) = nAdd + nImport
    /\ [][/\ lastStep' \in {"theme", "play", "pause"} =>
                /\ channels' = channels
                /\ spectrograms' = spectrograms
          /\ Len(spectrograms') = nAdd' + nImport'
          /\ Len(channels') = nAdd' + nImport'
          /\ Len(spectrograms') >= Len(spectrograms)]_vars

C10_Witness ==
    /\ lastStep \in {"theme", "play", "pause"}
    /\ nAdd >= 1
    /\ nImport >= 1
    /\ discarded # {}
    /\ Len(spectrograms) = 2

====
